---- MODULE Spec2Model ----
(***************************************************************************)
(* Retail BI simulator: the forecast-and-anomaly pipeline of retail_bi.py  *)
(* and its callers: main(), the streamlit_app module and library callers.  *)
(*                                                                         *)
(* Representation.                                                         *)
(*   - A calendar month is its ordinal year*12 + month, an integer of at   *)
(*     least FirstMonth; a plain position (the integer index statsmodels   *)
(*     falls back to) is a small integer below FirstMonth.                 *)
(*   - Revenue is an integer amount, or Inf for an infinite float.         *)
(*   - Residuals are held in sixths of a revenue unit, so that the mean    *)
(*     of 1, 2 or 3 values is exact.                                       *)
(*   - A z threshold is held in tenths (30 is 3.0), a confidence level in  *)
(*     percent.                                                            *)
(*   - A standardized score num / sqrt(den2) is the pair (num, den2).      *)
(***************************************************************************)
EXTENDS Integers, Sequences, FiniteSets

VARIABLES
    pc,         \* position of the running call
    entry,      \* which caller runs: main, run_pipeline, api, detect
    monthly,    \* the monthly aggregation handed to totals_series
    total,      \* the series totals_series returned
    steps,      \* forecast horizon
    ci,         \* requested confidence level
    z,          \* requested z threshold
    fit,        \* what SARIMAX.fit / get_forecast produced
    today,      \* the month pd.Timestamp.today() fell in, when it was read
    fc,         \* the forecast table
    residuals,  \* the residual series
    anomalies,  \* the anomaly table
    err,        \* the exception that ended the call, or "none"
    raw,        \* the transaction table handed to load_transactions
    df,         \* the cleaned transactions load_transactions returned
    today2,     \* the month today() fell in when a repeated call read it
    fit2,       \* what SARIMAX.fit produced in the repeated forecast call
    fc2,        \* the forecast table of the repeated forecast call
    residuals2, \* the residual series of the repeated forecast call
    err2        \* the exception that ended the repeated forecast call

loadVars == <<raw, df>>

repeatVars == <<today2, fit2, fc2, residuals2, err2>>

vars == <<pc, entry, monthly, total, steps, ci, z, fit, today, fc, residuals,
          anomalies, err, loadVars, repeatVars>>

----------------------------------------------------------------------------
(* Bounds of the model                                                     *)

FirstMonth == 24289
MaxMonth == 9
MaxRows == 3
MaxApiRows == 2
MaxSteps == 2
MaxResid == 3

(* Program constants                                                       *)

Inf == 1000000000
MinFit == 8
MainSteps == 3
DefaultZ == 30
DefaultCi == 80
RollWindow == 3

(* Residuals are counted in sixths: 6 is the least common multiple of the  *)
(* window sizes 1, 2 and 3.                                                *)
ResidScale == 2 * RollWindow

Months == FirstMonth .. (FirstMonth + MaxMonth - 1)
Revenues == {2, Inf}
RowSet == [Month : Months, Revenue : Revenues]
Horizons == 1 .. MaxSteps
CiLevels == {50, 80, 85, 90, 95}
ZThresholds == {10, 30}
TodayMonths == {FirstMonth + MaxMonth, FirstMonth + MaxMonth + 1}
PredMeans == {-2, 3, 9}
HalfWidths == {0, 4}
ResidSpikes == {0, 12}
ResidVals == {-6, 0, 30}

NoFit == [status |-> "none", mean |-> 0, width |-> 0, spike |-> 0]

----------------------------------------------------------------------------
(* Float arithmetic with infinity                                          *)

Add(a, b) == IF a = Inf \/ b = Inf THEN Inf ELSE a + b

Max(a, b) == IF a >= b THEN a ELSE b

----------------------------------------------------------------------------
(* monthly_agg: one row per (Month, Country, Category), sorted by Month    *)
(* ascending and then Revenue descending.                                  *)

IsAggSorted(rows) ==
    \A i, j \in DOMAIN rows :
        i < j => \/ rows[i].Month < rows[j].Month
                 \/ /\ rows[i].Month = rows[j].Month
                    /\ rows[i].Revenue >= rows[j].Revenue

RowSeqs(n) == UNION {[1 .. k -> RowSet] : k \in 0 .. n}

AggRows == {rows \in RowSeqs(MaxRows) : IsAggSorted(rows)}

(* The six-month history 100, 110, 95, 105, 100, 300, in units of 5.       *)
ScenarioValues == <<20, 22, 19, 21, 20, 60>>

ScenarioRows ==
    [i \in 1 .. Len(ScenarioValues) |->
        [Month |-> FirstMonth + i - 1, Revenue |-> ScenarioValues[i]]]

----------------------------------------------------------------------------
(* totals_series: groupby("Month").sum(), sort_index(), asfreq("MS", 0.0)  *)

RECURSIVE SumRevenue(_, _, _)
SumRevenue(rows, m, i) ==
    IF i > Len(rows) THEN 0
    ELSE IF rows[i].Month = m
         THEN Add(rows[i].Revenue, SumRevenue(rows, m, i + 1))
         ELSE SumRevenue(rows, m, i + 1)

GroupbySum(rows) ==
    [m \in {rows[i].Month : i \in DOMAIN rows} |-> SumRevenue(rows, m, 1)]

RECURSIVE SortIndex(_)
SortIndex(g) ==
    IF DOMAIN g = {} THEN <<>>
    ELSE LET m == CHOOSE x \in DOMAIN g : \A y \in DOMAIN g : x <= y
             rest == [y \in DOMAIN g \ {m} |-> g[y]]
         IN  <<[Month |-> m, Revenue |-> g[m]]>> \o SortIndex(rest)

Lookup(sq, m) ==
    IF \E i \in DOMAIN sq : sq[i].Month = m
    THEN sq[CHOOSE i \in DOMAIN sq : sq[i].Month = m].Revenue
    ELSE 0

AsFreqUnfilled(sq) == sq

(* asfreq("MS", fill_value=0.0) on an index it accepts: every month from   *)
(* the first to the last, 0 where the month is missing; an empty           *)
(* DatetimeIndex gives an empty series.                                    *)
AsFreq(sq) ==
    IF Len(sq) = 0 THEN <<>>
    ELSE LET first == sq[1].Month
             last  == sq[Len(sq)].Month
         IN  [i \in 1 .. (last - first + 1) |->
                 [Month |-> first + i - 1,
                  Revenue |-> Lookup(sq, first + i - 1)]]

(* asfreq on an empty index that is no DatetimeIndex (an empty frame whose *)
(* Month column holds no dates, dated = FALSE) raises TypeError.           *)
AsFreqRaises(sq, dated) == Len(sq) = 0 /\ ~dated

totals_series(rows, dated) ==
    LET g == SortIndex(GroupbySum(rows))
    IN  IF AsFreqRaises(g, dated)
        THEN [raised |-> TRUE, series |-> <<>>]
        ELSE [raised |-> FALSE, series |-> AsFreq(g)]

----------------------------------------------------------------------------
(* load_transactions, for a table that has a Description column and no     *)
(* Country and no Category column: Country is then the constant "Unknown". *)
(* A cell is held as pd.to_numeric and pd.to_datetime with errors="coerce" *)
(* leave it: a missing or unparseable number is NaN, a missing or          *)
(* unparseable date is NaT.  A date is a calendar month and a day in it.   *)

NaN == -1000000000

NaT == [Month |-> 0, Day |-> 0]

MaxRawRows == 2

RawDates ==
    {NaT, [Month |-> FirstMonth, Day |-> 15], [Month |-> FirstMonth + 2, Day |-> 3]}

RawQuantities == {NaN, -1, 0, 1}

RawPrices == {NaN, -2, 0, 2}

RawDescriptions == {"Misc", "123"}

RawRowSet ==
    [InvoiceDate : RawDates, Quantity : RawQuantities, UnitPrice : RawPrices,
     Description : RawDescriptions]

RawTables == UNION {[1 .. k -> RawRowSet] : k \in 0 .. MaxRawRows}

(* dropna(subset=["InvoiceDate", "Quantity", "UnitPrice"])                 *)
NotNa(r) ==
    /\ r.InvoiceDate # NaT
    /\ r.Quantity # NaN
    /\ r.UnitPrice # NaN

KeepRowAnyQuantity(r) == NotNa(r) /\ r.UnitPrice > 0

(* ... then df[df["Quantity"] > 0] and df[df["UnitPrice"] > 0]             *)
KeepRow(r) == NotNa(r) /\ r.Quantity > 0 /\ r.UnitPrice > 0

(* dt.to_period("M").dt.to_timestamp(): the first day of the date's month  *)
ToMonth(d) == d.Month

(* str.extract(r"([A-Za-z ]+)")[0].str.strip().replace("", "Other"): the   *)
(* first run of letters of the description, NaN when it has no letter      *)
Category(desc) == IF desc = "123" THEN "NaN" ELSE desc

(* Category from Description, Revenue = Quantity * UnitPrice, Month from   *)
(* InvoiceDate                                                             *)
Derive(r) ==
    [InvoiceDate |-> r.InvoiceDate, Quantity |-> r.Quantity,
     UnitPrice |-> r.UnitPrice, Description |-> r.Description,
     Category |-> Category(r.Description),
     Revenue |-> r.Quantity * r.UnitPrice,
     Month |-> ToMonth(r.InvoiceDate)]

load_transactions(t) ==
    LET kept == SelectSeq(t, KeepRow)
    IN  [i \in 1 .. Len(kept) |-> Derive(kept[i])]

(* groupby leaves out the rows whose group key is NaN                      *)
HasKey(r) == r.Category # "NaN"

(* monthly_agg: Month is derived again, the rows are summed per (Month,    *)
(* Country, Category) and sorted by Month ascending, Revenue descending;   *)
(* with one country and one category that is one row per month.            *)
monthly_agg(d) ==
    LET keyed == SelectSeq(d, HasKey)
        rows  == [i \in 1 .. Len(keyed) |->
                    [Month |-> ToMonth(keyed[i].InvoiceDate),
                     Revenue |-> keyed[i].Revenue]]
    IN  SortIndex(GroupbySum(rows))

----------------------------------------------------------------------------
(* forecast_with_ci(total, steps)                                          *)

IsFinite(e) == e.Revenue # Inf

(* pd.to_numeric(...).astype(float), replace(+-inf, nan), dropna()         *)
Clean(t) == SelectSeq(t, IsFinite)

(* s.empty: steps months from the current month, all zero                  *)
EmptyForecast(now, h) ==
    [i \in 1 .. h |-> [Month |-> now + i - 1, yhat |-> 0, lower |-> 0, upper |-> 0]]

FallbackForecastFirst(s, h) ==
    LET base == s[1].Revenue
    IN  [i \in 1 .. h |->
            [Month |-> s[Len(s)].Month + i,
             yhat |-> base, lower |-> base, upper |-> base]]

(* len(s) < 8: the last value, repeated, from the month after s.index[-1]  *)
FallbackForecast(s, h) ==
    LET base == s[Len(s)].Revenue
    IN  [i \in 1 .. h |->
            [Month |-> s[Len(s)].Month + i,
             yhat |-> base, lower |-> base, upper |-> base]]

RECURSIVE SumRange(_, _, _)
SumRange(s, lo, hi) ==
    IF lo > hi THEN 0 ELSE s[lo].Revenue + SumRange(s, lo + 1, hi)

RollingResidualsFullWindow(s) ==
    [i \in 1 .. Len(s) |->
        LET lo == Max(1, i - RollWindow + 1)
        IN  [Month |-> s[i].Month,
             Value |-> ResidScale * s[i].Revenue
                       - (ResidScale \div RollWindow) * SumRange(s, lo, i)]]

(* s - s.rolling(3, min_periods=1).mean(), in sixths                       *)
RollingResiduals(s) ==
    [i \in 1 .. Len(s) |->
        LET lo  == Max(1, i - RollWindow + 1)
            cnt == i - lo + 1
        IN  [Month |-> s[i].Month,
             Value |-> ResidScale * s[i].Revenue
                       - (ResidScale \div cnt) * SumRange(s, lo, i)]]

(* The fitted model's h-step results: predicted_mean and conf_int(0.20),   *)
(* an interval around the mean that widens with the horizon.               *)
RawMean(f, i) == f.mean

RawLower(f, i) == f.mean - f.width * i

RawUpper(f, i) == f.mean + f.width * i

NoClip(x) == x

(* Series.clip(lower=0)                                                    *)
Clip0(x) == Max(x, 0)

(* Whether statsmodels can infer a monthly frequency from s.index          *)
IsRegular(s) == \A i \in 1 .. (Len(s) - 1) : s[i + 1].Month = s[i].Month + 1

(* The index of get_forecast: the following months, or, when the date      *)
(* index carries no frequency, integer positions beginning at nobs.        *)
ForecastIndex(s, i) ==
    IF IsRegular(s) THEN s[Len(s)].Month + i ELSE Len(s) + i - 1

ModelForecast(s, h, f) ==
    [i \in 1 .. h |->
        [Month |-> ForecastIndex(s, i),
         yhat  |-> Clip0(RawMean(f, i)),
         lower |-> Clip0(RawLower(f, i)),
         upper |-> Clip0(RawUpper(f, i))]]

(* res.resid: one in-sample residual per observation of s                  *)
ModelResiduals(s, f) ==
    [i \in 1 .. Len(s) |->
        [Month |-> s[i].Month, Value |-> IF i = Len(s) THEN f.spike ELSE 0]]

(* SARIMAX is an external library: what fit and get_forecast yield is a    *)
(* choice of the environment, drawn here from a bounded family of finite   *)
(* means, interval half-widths and residual spikes, or the fit raises.     *)
FitOutcomes ==
    [status : {"ok"}, mean : PredMeans, width : HalfWidths, spike : ResidSpikes]

FitFailure == [status |-> "raised", mean |-> 0, width |-> 0, spike |-> 0]

Path(t) ==
    LET s == Clean(t)
    IN  IF Len(s) = 0 THEN "empty"
        ELSE IF Len(s) < MinFit THEN "fallback"
        ELSE "model"

(* The whole function: f is what the SARIMAX fit yields when it is run,    *)
(* now is the month today() falls in when it is read.                      *)
forecast_with_ci(t, h, f, now) ==
    LET s == Clean(t)
    IN  IF Len(s) = 0
        THEN [raised |-> FALSE, fc |-> EmptyForecast(now, h), residuals |-> <<>>]
        ELSE IF Len(s) < MinFit
        THEN [raised |-> FALSE, fc |-> FallbackForecast(s, h),
              residuals |-> RollingResiduals(s)]
        ELSE IF f.status = "raised"
        THEN [raised |-> TRUE, fc |-> <<>>, residuals |-> <<>>]
        ELSE [raised |-> FALSE, fc |-> ModelForecast(s, h, f),
              residuals |-> ModelResiduals(s, f)]

----------------------------------------------------------------------------
(* detect_anomalies(residuals, z=3.0).  retail_bi.py calls it (line 253)   *)
(* and streamlit_app.py imports it, but no file defines it; it is modelled *)
(* from the design document, section 4.3: population standard deviation,   *)
(* score 0 when the deviation is 0, flag when |score| >= threshold.        *)

RECURSIVE SumValues(_, _)
SumValues(r, i) ==
    IF i > Len(r) THEN 0 ELSE r[i].Value + SumValues(r, i + 1)

RECURSIVE SumSquares(_, _)
SumSquares(r, i) ==
    IF i > Len(r) THEN 0 ELSE r[i].Value * r[i].Value + SumSquares(r, i + 1)

(* N^2 times the population variance                                       *)
ScaledVariance(r) ==
    Len(r) * SumSquares(r, 1) - SumValues(r, 1) * SumValues(r, 1)

ScoreUnguarded(r, i) ==
    [num |-> Len(r) * r[i].Value - SumValues(r, 1), den2 |-> ScaledVariance(r)]

(* (residual - mean) / std is (N*residual - sum) / sqrt(N^2 * variance);   *)
(* a zero standard deviation gives the score 0.                            *)
Score(r, i) ==
    LET v == ScaledVariance(r)
    IN  IF v = 0 THEN [num |-> 0, den2 |-> 1]
        ELSE [num |-> Len(r) * r[i].Value - SumValues(r, 1), den2 |-> v]

IsAnomalyStrict(sc, t) == 100 * sc.num * sc.num > t * t * sc.den2

(* |score| >= t/10                                                         *)
IsAnomaly(sc, t) == 100 * sc.num * sc.num >= t * t * sc.den2

detect_anomalies(r, t) ==
    [i \in 1 .. Len(r) |->
        [Month |-> r[i].Month, Residual |-> r[i].Value,
         Z |-> Score(r, i), Anomaly |-> IsAnomaly(Score(r, i), t)]]

ResidSeqs ==
    UNION {[1 .. n -> ResidVals] : n \in 0 .. MaxResid}

AsResiduals(vals) ==
    [i \in 1 .. Len(vals) |-> [Month |-> FirstMonth + i - 1, Value |-> vals[i]]]

----------------------------------------------------------------------------
Init ==
    /\ pc = "idle"
    /\ entry = "none"
    /\ monthly = <<>>
    /\ total = <<>>
    /\ steps = 0
    /\ ci = DefaultCi
    /\ z = DefaultZ
    /\ fit = NoFit
    /\ today = 0
    /\ fc = <<>>
    /\ residuals = <<>>
    /\ anomalies = <<>>
    /\ err = "none"
    /\ raw = <<>>
    /\ df = <<>>
    /\ today2 = 0
    /\ fit2 = NoFit
    /\ fc2 = <<>>
    /\ residuals2 = <<>>
    /\ err2 = "none"

(* main(): load_transactions and monthly_agg leave the aggregation sorted. *)
MainStart ==
    /\ pc = "idle"
    /\ \E rows \in AggRows : monthly' = rows
    /\ entry' = "main"
    /\ pc' = "aggregated"
    /\ UNCHANGED <<total, steps, ci, z, fit, today, fc, residuals, anomalies, err>>
    /\ UNCHANGED <<loadVars, repeatVars>>

(* A library caller hands totals_series an aggregation in any order.       *)
ApiStart ==
    /\ pc = "idle"
    /\ \E rows \in RowSeqs(MaxApiRows) : monthly' = rows
    /\ entry' = "api"
    /\ pc' = "aggregated"
    /\ UNCHANGED <<total, steps, ci, z, fit, today, fc, residuals, anomalies, err>>
    /\ UNCHANGED <<loadVars, repeatVars>>

(* A library caller builds the series of the six-month history.           *)
ScenarioStart ==
    /\ pc = "idle"
    /\ monthly' = ScenarioRows
    /\ entry' = "api"
    /\ pc' = "aggregated"
    /\ UNCHANGED <<total, steps, ci, z, fit, today, fc, residuals, anomalies, err>>
    /\ UNCHANGED <<loadVars, repeatVars>>

(* streamlit_app.py lines 10-13, run when the module is loaded: it imports  *)
(* detect_anomalies from retail_bi, which defines no such name, so the     *)
(* import raises before run_pipeline is defined.                           *)
RunPipelineStart ==
    /\ pc = "idle"
    /\ entry' = "run_pipeline"
    /\ err' = "ImportError"
    /\ pc' = "failed"
    /\ UNCHANGED <<monthly, total, steps, ci, z, fit, today, fc, residuals,
                   anomalies>>
    /\ UNCHANGED <<loadVars, repeatVars>>

(* main derives Month with the dt accessor, so its Month column is always  *)
(* datetime-typed; the empty frame a library caller hands over may have a  *)
(* Month column of any type.                                               *)
MonthDtypes == IF entry = "api" /\ monthly = <<>> THEN BOOLEAN ELSE {TRUE}

TotalsSeries ==
    /\ pc = "aggregated"
    /\ \E dated \in MonthDtypes :
        LET r == totals_series(monthly, dated)
        IN  /\ total' = r.series
            /\ pc' = IF r.raised THEN "failed" ELSE "series"
            /\ err' = IF r.raised THEN "TypeError" ELSE "none"
    /\ UNCHANGED <<entry, monthly, steps, ci, z, fit, today, fc, residuals,
                   anomalies>>
    /\ UNCHANGED <<loadVars, repeatVars>>

CallerSteps == IF entry = "main" THEN {MainSteps} ELSE Horizons

ForecastReturns(h, f, now) ==
    LET r == forecast_with_ci(total, h, f, now)
    IN  /\ steps' = h
        /\ fit' = f
        /\ today' = now
        /\ fc' = r.fc
        /\ residuals' = r.residuals
        /\ pc' = IF r.raised THEN "failed" ELSE "forecast"
        /\ err' = IF r.raised THEN "FitError" ELSE "none"
        /\ UNCHANGED <<entry, monthly, total, ci, z, anomalies>>
        /\ UNCHANGED <<loadVars, repeatVars>>

ForecastEmpty ==
    /\ pc = "series"
    /\ entry \in {"main", "api"}
    /\ Path(total) = "empty"
    /\ \E h \in CallerSteps, now \in TodayMonths : ForecastReturns(h, NoFit, now)

ForecastFallback ==
    /\ pc = "series"
    /\ entry \in {"main", "api"}
    /\ Path(total) = "fallback"
    /\ \E h \in CallerSteps : ForecastReturns(h, NoFit, 0)

ForecastModel ==
    /\ pc = "series"
    /\ entry \in {"main", "api"}
    /\ Path(total) = "model"
    /\ \E h \in CallerSteps, f \in FitOutcomes : ForecastReturns(h, f, 0)

ForecastFitRaises ==
    /\ pc = "series"
    /\ entry \in {"main", "api"}
    /\ Path(total) = "model"
    /\ \E h \in CallerSteps : ForecastReturns(h, FitFailure, 0)

(* A library caller asks forecast_with_ci for a confidence level, as       *)
(* streamlit_app.py lines 149 and 152 do: the function takes total and     *)
(* steps only, so the call raises TypeError before its body runs.          *)
ForecastCiRequested ==
    /\ pc = "series"
    /\ entry = "api"
    /\ \E h \in Horizons : steps' = h
    /\ \E l \in CiLevels : ci' = l
    /\ err' = "TypeError"
    /\ pc' = "failed"
    /\ UNCHANGED <<entry, monthly, total, z, fit, today, fc, residuals, anomalies>>
    /\ UNCHANGED <<loadVars, repeatVars>>

(* main line 253 calls detect_anomalies(residuals), and a library caller   *)
(* calls retail_bi.detect_anomalies: retail_bi.py defines no such name, so *)
(* the call raises NameError in main and AttributeError for the caller.    *)
Detect ==
    /\ pc = "forecast"
    /\ entry \in {"main", "api"}
    /\ err' = IF entry = "main" THEN "NameError" ELSE "AttributeError"
    /\ pc' = "failed"
    /\ UNCHANGED <<entry, monthly, total, steps, ci, z, fit, today, fc,
                   residuals, anomalies>>
    /\ UNCHANGED <<loadVars, repeatVars>>

(* The detector of the design document, called on a residual series.       *)
DetectCall ==
    /\ pc = "idle"
    /\ \E vals \in ResidSeqs, t \in ZThresholds :
        /\ residuals' = AsResiduals(vals)
        /\ z' = t
        /\ anomalies' = detect_anomalies(AsResiduals(vals), t)
    /\ entry' = "detect"
    /\ pc' = "done"
    /\ UNCHANGED <<monthly, total, steps, ci, fit, today, fc, err>>
    /\ UNCHANGED <<loadVars, repeatVars>>

(* main lines 249-250, from the transaction table on: load_transactions    *)
LoadTransactions ==
    /\ pc = "idle"
    /\ \E t \in RawTables :
        /\ raw' = t
        /\ df' = load_transactions(t)
    /\ entry' = "main"
    /\ pc' = "loaded"
    /\ UNCHANGED <<monthly, total, steps, ci, z, fit, today, fc, residuals,
                   anomalies, err, repeatVars>>

MonthlyAgg ==
    /\ pc = "loaded"
    /\ monthly' = monthly_agg(df)
    /\ pc' = "aggregated"
    /\ UNCHANGED <<entry, total, steps, ci, z, fit, today, fc, residuals,
                   anomalies, err, loadVars, repeatVars>>

(* A library caller calls forecast_with_ci a second time on the same       *)
(* series and horizon: the function runs again from its arguments.  Where  *)
(* it reads the clock, the clock is read again and has not gone back;      *)
(* where it fits the model, what the fit yields is again the library's.    *)
RepeatClock ==
    IF Path(total) = "empty" THEN {m \in TodayMonths : m >= today} ELSE {0}

RepeatFits ==
    IF Path(total) = "model" THEN FitOutcomes \cup {FitFailure} ELSE {NoFit}

ForecastAgain ==
    /\ entry = "api"
    /\ \/ pc = "forecast"
       \/ pc = "failed" /\ err = "FitError"
    /\ \E now \in RepeatClock, f \in RepeatFits :
        LET r == forecast_with_ci(total, steps, f, now)
        IN  /\ today2' = now
            /\ fit2' = f
            /\ fc2' = r.fc
            /\ residuals2' = r.residuals
            /\ err2' = IF r.raised THEN "FitError" ELSE "none"
    /\ pc' = "reforecast"
    /\ UNCHANGED <<entry, monthly, total, steps, ci, z, fit, today, fc,
                   residuals, anomalies, err, loadVars>>

Next ==
    \/ MainStart
    \/ ApiStart
    \/ ScenarioStart
    \/ RunPipelineStart
    \/ TotalsSeries
    \/ ForecastCiRequested
    \/ ForecastEmpty
    \/ ForecastFallback
    \/ ForecastModel
    \/ ForecastFitRaises
    \/ Detect
    \/ DetectCall

Spec == Init /\ [][Next]_vars

(* Library callers that repeat their calls                                 *)
NextRepeat ==
    \/ ApiStart
    \/ ScenarioStart
    \/ TotalsSeries
    \/ ForecastEmpty
    \/ ForecastFallback
    \/ ForecastModel
    \/ ForecastFitRaises
    \/ ForecastAgain

SpecRepeat == Init /\ [][NextRepeat]_vars

(* main from the transaction table to the revenue series                   *)
NextLoad ==
    \/ LoadTransactions
    \/ MonthlyAgg
    \/ TotalsSeries

SpecLoad == Init /\ [][NextLoad]_vars

----------------------------------------------------------------------------
(* Properties                                                              *)

(* the call of the detector that followed the forecast found no detector   *)
DetectorMissing == pc = "failed" /\ err \in {"NameError", "AttributeError"}

(* forecast_with_ci has returned to main or to a library caller            *)
Forecasted ==
    /\ entry \in {"main", "api"}
    /\ pc = "forecast" \/ DetectorMissing

(* forecast_with_ci has run, whether it returned or its fit raised         *)
ForecastTaken ==
    /\ entry \in {"main", "api"}
    /\ \/ pc = "forecast"
       \/ DetectorMissing
       \/ pc = "failed" /\ err = "FitError"

Valid == Clean(total)

(* C1: for a series with 1 to 7 valid months and any horizon h >= 1, the   *)
(* forecast has exactly h records and in each of them yhat, lower and      *)
(* upper all equal the last observed (valid) revenue value.                *)
C1_PersistenceForecast ==
    (Forecasted /\ Len(Valid) >= 1 /\ Len(Valid) < 8) =>
        /\ steps >= 1
        /\ Len(fc) = steps
        /\ \A i \in 1 .. Len(fc) :
            /\ fc[i].yhat = Valid[Len(Valid)].Revenue
            /\ fc[i].lower = Valid[Len(Valid)].Revenue
            /\ fc[i].upper = Valid[Len(Valid)].Revenue

C1_Witness ==
    /\ Forecasted
    /\ Len(Valid) >= 2
    /\ Len(Valid) < 8
    /\ Valid[1].Revenue # Valid[Len(Valid)].Revenue
    /\ Len(fc) = 3
    /\ fc[3].yhat = Valid[Len(Valid)].Revenue

(* C2: for a series with at least 8 valid months and any horizon h >= 1,   *)
(* a forecast that is returned has exactly h records, each with            *)
(* 0 <= lower <= yhat <= upper, whatever the fitted model produced.        *)
C2_ClampedBand ==
    (Forecasted /\ Len(Valid) >= 8) =>
        /\ steps >= 1
        /\ Len(fc) = steps
        /\ \A i \in 1 .. Len(fc) :
            /\ 0 <= fc[i].lower
            /\ fc[i].lower <= fc[i].yhat
            /\ fc[i].yhat <= fc[i].upper

C2_Witness ==
    /\ Forecasted
    /\ Len(Valid) >= 8
    /\ fit.status = "ok"
    /\ fit.mean < 0
    /\ fit.mean + fit.width > 0
    /\ Len(fc) = 2
    /\ fc[1].lower = 0
    /\ fc[1].yhat = 0
    /\ fc[1].upper > 0

(* C3 as claimed: when the series has zero months, also after invalid      *)
(* values were dropped, the forecast step signals a failure and returns    *)
(* no forecast.                                                            *)
C3_EmptySignalled ==
    (ForecastTaken /\ Len(Valid) = 0) =>
        /\ pc = "failed"
        /\ err # "none"
        /\ fc = <<>>

(* C4 as claimed: when the fit of a series of at least 8 valid months     *)
(* raises, the failure is not propagated: the caller receives the          *)
(* persistence forecast and the trailing-mean residuals.                   *)
C4_FitFailureRecovered ==
    (ForecastTaken /\ fit.status = "raised") =>
        /\ pc # "failed"
        /\ err = "none"
        /\ fc = FallbackForecast(Valid, steps)
        /\ residuals = RollingResiduals(Valid)

(* C5 as claimed: a run through main over a non-empty monthly series, or   *)
(* through run_pipeline, is never ended by an exception.                   *)
C5_RunCompletes ==
    ((entry = "main" /\ Len(total) > 0) \/ entry = "run_pipeline") => pc # "failed"

(* C6 as claimed: the forecast months of a series with at least one valid  *)
(* month are the h months that follow the final month of the series, also  *)
(* when values of the series were dropped as invalid.                      *)
C6_ContiguousMonths ==
    (Forecasted /\ Len(Valid) >= 1) =>
        \A i \in 1 .. Len(fc) : fc[i].Month = total[Len(total)].Month + i
RECURSIVE SumOver(_, _)
SumOver(rows, I) ==
    IF I = {} THEN 0
    ELSE LET i == CHOOSE x \in I : TRUE
         IN  Add(rows[i].Revenue, SumOver(rows, I \ {i}))

RowsOf(rows, m) == {i \in DOMAIN rows : rows[i].Month = m}

ObservedMonths == {monthly[i].Month : i \in DOMAIN monthly}

(* C7: for a non-empty aggregation in any order and with any gaps, the     *)
(* series has exactly one entry for every month from the earliest to the   *)
(* latest observed month, ascending; an observed month carries the sum of  *)
(* its revenue and an unobserved month carries 0.                          *)
C7_GapFreeSeries ==
    (entry \in {"main", "api"} /\ pc # "aggregated" /\ monthly # <<>>) =>
        LET first == CHOOSE m \in ObservedMonths : \A x \in ObservedMonths : m <= x
            last  == CHOOSE m \in ObservedMonths : \A x \in ObservedMonths : m >= x
        IN  /\ Len(total) = last - first + 1
            /\ \A i \in 1 .. Len(total) :
                /\ total[i].Month = first + i - 1
                /\ total[i].Revenue =
                       SumOver(monthly, RowsOf(monthly, first + i - 1))

C7_Witness ==
    /\ entry = "api"
    /\ pc = "series"
    /\ Len(monthly) = 2
    /\ monthly[1].Month > monthly[2].Month + 1
    /\ monthly[1].Revenue = 2
    /\ Len(total) = monthly[1].Month - monthly[2].Month + 1
    /\ total[2].Revenue = 0
    /\ total[Len(total)].Revenue = 2

(* the detector has returned                                               *)
Detected ==
    /\ entry = "detect"
    /\ pc = "done"

RECURSIVE SumDev2(_, _)
SumDev2(r, i) ==
    IF i > Len(r) THEN 0
    ELSE LET d == Len(r) * r[i].Value - SumValues(r, 1)
         IN  d * d + SumDev2(r, i + 1)

(* C8: the anomaly table has one record per residual month, in the         *)
(* residuals' order, with score = (residual - mean) / population standard  *)
(* deviation and isAnomaly exactly when |score| >= threshold.  With N      *)
(* residuals r, d_i = N*r_i - sum(r) and D = sum of d_j^2, the score is    *)
(* d_i / sqrt(D / N).                                                      *)
C8_DetectScores ==
    Detected =>
        /\ Len(anomalies) = Len(residuals)
        /\ \A i \in 1 .. Len(anomalies) :
            /\ anomalies[i].Month = residuals[i].Month
            /\ anomalies[i].Residual = residuals[i].Value
            /\ anomalies[i].Z.den2 > 0
            /\ SumDev2(residuals, 1) > 0 =>
                /\ anomalies[i].Z.num =
                       Len(residuals) * residuals[i].Value - SumValues(residuals, 1)
                /\ Len(residuals) * anomalies[i].Z.den2 = SumDev2(residuals, 1)
            /\ anomalies[i].Anomaly <=>
                   (100 * anomalies[i].Z.num * anomalies[i].Z.num
                        >= z * z * anomalies[i].Z.den2)

(* residuals -6 and 30: mean 12, deviation 18, scores -1 and 1, which meet *)
(* the threshold 1.0 exactly                                               *)
C8_Witness ==
    /\ Detected
    /\ entry = "detect"
    /\ z = 10
    /\ Len(anomalies) = 2
    /\ residuals[1].Value = -6
    /\ residuals[2].Value = 30
    /\ anomalies[1].Z.num < 0
    /\ anomalies[2].Z.num > 0
    /\ anomalies[1].Anomaly
    /\ anomalies[2].Anomaly

(* C9: for residuals that are all equal and any positive threshold, every  *)
(* score is 0 and no record is flagged.                                    *)
C9_ConstantResiduals ==
    (Detected /\ z > 0
        /\ \A i, j \in DOMAIN residuals : residuals[i].Value = residuals[j].Value) =>
        /\ Len(anomalies) = Len(residuals)
        /\ \A i \in 1 .. Len(anomalies) :
            /\ anomalies[i].Z.num = 0
            /\ anomalies[i].Z.den2 > 0
            /\ anomalies[i].Anomaly = FALSE

C9_Witness ==
    /\ Detected
    /\ entry = "detect"
    /\ Len(residuals) = 3
    /\ \A i \in DOMAIN residuals : residuals[i].Value = 30
    /\ Len(anomalies) = 3
    /\ \A i \in DOMAIN anomalies : ~anomalies[i].Anomaly

(* The widening factor of a confidence level, in hundredths                *)
WideningFactor(l) ==
    CASE l = 85 -> 115
      [] l = 90 -> 135
      [] l = 95 -> 180
      [] OTHER  -> 100

(* C10 as claimed: a caller that requested a confidence level L other than *)
(* the default receives the forecast of its series, each record's band     *)
(* rescaled around yhat by f(L) and clamped at 0 (amounts compared in      *)
(* hundredths).                                                            *)
C10_BandRescaled ==
    (entry = "api" /\ ci # DefaultCi /\ Len(Valid) >= 1
        /\ pc \in {"forecast", "failed"}) =>
        LET base == forecast_with_ci(total, steps, fit, today).fc
            f    == WideningFactor(ci)
        IN  /\ err = "none"
            /\ Len(fc) = steps
            /\ \A i \in 1 .. Len(fc) :
                /\ fc[i].yhat = base[i].yhat
                /\ 100 * fc[i].lower =
                       Max(0, 100 * base[i].yhat - (base[i].yhat - base[i].lower) * f)
                /\ 100 * fc[i].upper =
                       Max(0, 100 * base[i].yhat + (base[i].upper - base[i].yhat) * f)
(* C12 as claimed, for the entry point main: a run whose forecast returned *)
(* invokes the detector after it, on the residual series that forecast     *)
(* returned, and ends with the detector's table.                           *)
C12_DetectorFedResiduals ==
    (entry = "main" /\ pc \in {"done", "failed"} /\ err # "FitError") =>
        /\ pc = "done"
        /\ Len(fc) = steps
        /\ anomalies = detect_anomalies(residuals, z)

(* C13: on the fallback path (1 to 7 valid months) the residual series has *)
(* one value per valid month, in month order, and the residual of month i  *)
(* is the month's value minus the mean of the (up to 3) values ending at   *)
(* i.  In sixths: 0 for the first month, 3*(a2 - a1) for the second and    *)
(* 4*a[i] - 2*a[i-1] - 2*a[i-2] from the third on.                         *)
C13_TrailingMeanResiduals ==
    (Forecasted /\ Len(Valid) >= 1 /\ Len(Valid) < 8) =>
        /\ Len(residuals) = Len(Valid)
        /\ \A i \in 1 .. Len(residuals) :
            /\ residuals[i].Month = Valid[i].Month
            /\ i = 1 => residuals[i].Value = 0
            /\ i = 2 => residuals[i].Value =
                            3 * (Valid[2].Revenue - Valid[1].Revenue)
            /\ i >= 3 => residuals[i].Value =
                            4 * Valid[i].Revenue - 2 * Valid[i - 1].Revenue
                                - 2 * Valid[i - 2].Revenue

(* the six-month history: the last residual is 60 - (21 + 20 + 60)/3,      *)
(* which is 158 sixths (300 - 505/3 in the original amounts)               *)
C13_Witness ==
    /\ Forecasted
    /\ monthly = ScenarioRows
    /\ Len(fc) = 2
    /\ fc[1].yhat = 60
    /\ fc[2].upper = 60
    /\ Len(residuals) = 6
    /\ residuals[1].Value = 0
    /\ residuals[2].Value = 6
    /\ residuals[6].Value = 158

(* forecast_with_ci has been called a second time by a library caller      *)
Repeated ==
    /\ entry = "api"
    /\ pc = "reforecast"

(* C11 as claimed, for forecast on a series no model is fitted to (fewer   *)
(* than 8 valid months): calling forecast twice on the same series and     *)
(* horizon yields identical results; the result depends on nothing other   *)
(* than the arguments.                                                     *)
C11_Stateless ==
    (Repeated /\ Len(Valid) < MinFit) =>
        /\ fc2 = fc
        /\ residuals2 = residuals
        /\ err2 = err

(* the rows of the transaction table that are summed: no missing date,     *)
(* quantity or price, quantity > 0 and unit price > 0, and a description   *)
(* that yields a category to group by                                      *)
IsSale(r) ==
    /\ r.InvoiceDate # NaT
    /\ r.Quantity # NaN
    /\ r.UnitPrice # NaN
    /\ ~(r.Quantity <= 0)
    /\ ~(r.UnitPrice <= 0)
    /\ r.Description = "Misc"

RECURSIVE SalesIn(_, _)
SalesIn(m, i) ==
    IF i > Len(raw) THEN 0
    ELSE (IF IsSale(raw[i]) /\ raw[i].InvoiceDate.Month = m
          THEN raw[i].Quantity * raw[i].UnitPrice ELSE 0) + SalesIn(m, i + 1)

SaleMonths == {raw[i].InvoiceDate.Month : i \in {j \in DOMAIN raw : IsSale(raw[j])}}

SeriesBuilt == entry = "main" /\ pc = "series"

(* C14: every entry of the series built from a transaction table by        *)
(* load_transactions -> monthly_agg -> totals_series has revenue >= 0:     *)
(* rows with a missing date, quantity or price, or with quantity <= 0 or   *)
(* unit price <= 0, are dropped before revenue = quantity * unit price is  *)
(* summed per month, and gap months are 0.  (Rows without a category are   *)
(* left out of the sums as well.)                                          *)
C14_NonNegativeSeries ==
    SeriesBuilt =>
        /\ \A i \in 1 .. Len(total) :
            /\ total[i].Revenue >= 0
            /\ total[i].Revenue = SalesIn(total[i].Month, 1)
            /\ total[i].Month = total[1].Month + i - 1
        /\ \A m \in SaleMonths : \E i \in 1 .. Len(total) : total[i].Month = m
        /\ Len(total) > 0 =>
            /\ total[1].Month \in SaleMonths
            /\ total[Len(total)].Month \in SaleMonths

C14_Witness ==
    /\ SeriesBuilt
    /\ Len(raw) = 2
    /\ raw[1].Quantity = -1
    /\ raw[1].UnitPrice = 2
    /\ raw[1].InvoiceDate = raw[2].InvoiceDate
    /\ raw[1].Description = "Misc"
    /\ Len(df) = 1
    /\ Len(total) = 1
    /\ total[1].Revenue = 2

====
